---- MODULE Spec2Model ----
(***************************************************************************)
(* ShotLine: posts, images, likes and comments behind a REST API with      *)
(* author-based authorization (views.py, permissions.py, serializers.py),  *)
(* the relational store declared in models.py and the admin deletion       *)
(* paths of admin.py.                                                      *)
(***************************************************************************)
EXTENDS Integers, FiniteSets, Sequences, TLC

\* ------------------------------------------------------------------ bounds
MaxPosts == 1
MaxImages == 2
MaxLikes == 1
MaxComments == 1
MaxUploads == 1
NumProcs == 2

\* ------------------------------------------------------------ the subjects
AnonymousUser == "anon"
Users == {"alice", "bob", "root"}
Superusers == {"root"}
Staff == {"alice", "root"}
Subjects == Users \cup {AnonymousUser}

None == "None"
Texts == {"t1", "t2"}
Blank == ""
Files == {"f1", "f2"}
LocNames == {"place"}
GeoOutcomes == {"found", "nomatch", "unavailable", "timeout", "service_error"}

Procs == 1..NumProcs
PostIds == 1..MaxPosts

VARIABLES posts, images, likes, comments,
          nextPost, nextImage, nextLike, nextComment,
          inflight, last

store == <<posts, images, likes, comments>>
ids == <<nextPost, nextImage, nextLike, nextComment>>
vars == <<posts, images, likes, comments,
          nextPost, nextImage, nextLike, nextComment, inflight, last>>

\* --------------------------------------------------------------- the store
PostExists(pid) == \E p \in posts : p.id = pid
PostById(pid) == CHOOSE p \in posts : p.id = pid
ImageById(i) == CHOOSE x \in images : x.id = i
LikeById(i) == CHOOSE x \in likes : x.id = i
CommentById(i) == CHOOSE x \in comments : x.id = i

ImagesOf(pid) == {x \in images : x.post = pid}
LikesOf(pid) == {x \in likes : x.post = pid}
CommentsOf(pid) == {x \in comments : x.post = pid}

ForeignKey_not_enforced(pid) == TRUE

\* models.py: every child row carries a ForeignKey to Post (db constraint).
ForeignKeyOk(pid) == PostExists(pid)

UniqueTogether_not_enforced(rows, pid, u) == TRUE

\* models.py: Like.Meta.unique_together = ('post', 'user').
UniqueTogetherOk(rows, pid, u) == ~ \E x \in rows : x.post = pid /\ x.user = u

\* A counter kept beside the rows and never decremented.
likes_count_never_decremented(pid) == nextLike - 1

\* Post.likes_count / PostSerializer.get_likes_count
likes_count(pid) == Cardinality(LikesOf(pid))

\* get_coordinates: every geocoder failure is swallowed, (None, None) results
get_coordinates(geo) == geo = "found"

\* Post.save: geocode when a location name is set and coordinates are missing
Post_save(p, geo) ==
    IF p.loc # None /\ ~p.coords
    THEN [p EXCEPT !.coords = get_coordinates(geo)]
    ELSE p

\* ------------------------------------------------------------- permissions
SAFE_METHODS == {"GET", "HEAD", "OPTIONS"}

IsAuthenticated(user) == user # AnonymousUser

AllowAny(method, user) == TRUE

IsAuthenticatedOrReadOnly(method, user) ==
    method \in SAFE_METHODS \/ user # AnonymousUser

\* getattr(obj, 'author', None) or getattr(obj, 'user', None)
author_or_user(kind, obj) ==
    LET a == IF kind \in {"post", "comment"} THEN obj.author ELSE None
        u == IF kind = "like" THEN obj.user ELSE None
    IN IF a # None THEN a ELSE u

has_object_permission(method, user, kind, obj) ==
    \/ method \in SAFE_METHODS
    \/ author_or_user(kind, obj) = user

\* AuthorCheckMixin.perform_update / perform_destroy: the author test
AuthorCheck(user, kind, obj) == author_or_user(kind, obj) = user

\* PostAdmin.has_change_permission / has_delete_permission (obj given)
has_change_permission(user, obj) == user \in Superusers \/ obj.author = user
has_delete_permission_author_only(user, obj) == obj.author = user
has_delete_permission(user, obj) == user \in Superusers \/ obj.author = user

\* PostAdmin.get_queryset
Admin_get_queryset(user) ==
    IF user \in Superusers THEN posts ELSE {p \in posts : p.author = user}

\* The owner a request body may name (author of a post or comment, user of a
\* like), or none.
OwnerIn == Users \cup {None}

owner_from_body(request_user, bodyOwner) == bodyOwner

\* PostList.perform_create (serializer.save(author=request.user)),
\* LikeSerializer.create and CommentSerializer.create (validated_data[...] =
\* request.user): author / user are read_only fields, the body's value is
\* dropped and the requester is stored.
owner_on_create(request_user, bodyOwner) == request_user

\* ModelSerializer.update with a read_only author / user field
owner_on_update(old, bodyOwner) == old

\* ------------------------------------------------------- requests in flight
Idle == [pc |-> "idle", subj |-> None, post |-> 0, left |-> 0, n |-> 0,
         text |-> Blank, todo |-> {}, removed |-> 0]

\* The owner a resource has for the purpose of the statements checked below:
\* the author of a post or comment, the user of a like, and for an image the
\* author of the post it is attached to.
OwnerOf(kind, obj) ==
    IF kind = "image"
    THEN (IF PostExists(obj.post) THEN PostById(obj.post).author ELSE None)
    ELSE author_or_user(kind, obj)

Response(via, kind, op, subj, id, owner, out, n, cnt, chg) ==
    [via |-> via, kind |-> kind, op |-> op, subj |-> subj, id |-> id,
     owner |-> owner, out |-> out, n |-> n, cnt |-> cnt, changed |-> chg]

NoResponse == Response("none", "none", "none", None, 0, None, "none", 0, 0, FALSE)

Init ==
    /\ posts = {} /\ images = {} /\ likes = {} /\ comments = {}
    /\ nextPost = 1 /\ nextImage = 1 /\ nextLike = 1 /\ nextComment = 1
    /\ inflight = [p \in Procs |-> Idle]
    /\ last = NoResponse

\* The response of the request that ended last; changed tells whether the
\* step that produced it wrote to the store.
Reply(via, kind, op, subj, id, owner, out, n, cnt) ==
    last' = Response(via, kind, op, subj, id, owner, out, n, cnt,
                     <<posts', images', likes', comments'>> # store)

\* Model.delete() on a Post: the collector removes the rows of every
\* on_delete=CASCADE relation and the post in one transaction.
Post_delete(pid) ==
    /\ posts' = {x \in posts : x.id # pid}
    /\ images' = images \ ImagesOf(pid)
    /\ likes' = likes \ LikesOf(pid)
    /\ comments' = comments \ CommentsOf(pid)

\* ------------------------------------------------------------------- posts
\* PostSerializer.validate / the guard at the head of PostSerializer.create
has_images_unchecked(nUp, img, nFiles) == TRUE

has_images(nUp, img, nFiles) == nUp > 0 \/ img \/ nFiles > 0

\* PostSerializer.create, the geocoding block: only GeocoderUnavailable is
\* caught; the location name is kept only when a location was found.
create_geocode_raises(loc, geo) ==
    loc # None /\ geo \in {"timeout", "service_error"}

create_location(loc, geo) ==
    IF loc # None /\ geo = "found" THEN [loc |-> loc, coords |-> TRUE]
    ELSE [loc |-> None, coords |-> FALSE]

\* PostList.create -> PostSerializer.is_valid -> perform_create ->
\* PostSerializer.create up to and including Post.objects.create
PostList_create(p, subj, text, nUp, img, nFiles, loc, geo) ==
  \E bodyOwner \in OwnerIn :
    LET out == IF ~IsAuthenticatedOrReadOnly("POST", subj) THEN "NotAuthenticated"
               ELSE IF text = Blank THEN "Invalid"
               ELSE IF ~has_images(nUp, img, nFiles) THEN "NoImage"
               ELSE IF create_geocode_raises(loc, geo) THEN "GeocoderError"
               ELSE IF img THEN "TypeError"
               ELSE "ok"
        n == nUp + nFiles + (IF img THEN 1 ELSE 0)
        l == create_location(loc, geo)
        row == Post_save([id |-> nextPost,
                          author |-> owner_on_create(subj, bodyOwner), text |-> text,
                          loc |-> l.loc, coords |-> l.coords], geo)
    IN /\ inflight[p].pc = "idle"
       /\ out = "ok" => (nextPost <= MaxPosts /\ nextImage + nUp - 1 <= MaxImages)
       /\ IF out = "ok"
          THEN /\ posts' = posts \cup {row}
               /\ nextPost' = nextPost + 1
          ELSE UNCHANGED <<posts, nextPost>>
       /\ UNCHANGED <<images, likes, comments, nextImage, nextLike, nextComment>>
       /\ IF out = "ok" /\ nUp > 0
          THEN /\ inflight' = [inflight EXCEPT ![p] =
                     [Idle EXCEPT !.pc = "post_images", !.subj = subj,
                                  !.post = nextPost, !.left = nUp, !.n = n]]
               /\ UNCHANGED last
          ELSE /\ UNCHANGED inflight
               /\ Reply("api", "post", "create", subj,
                        IF out = "ok" THEN nextPost ELSE 0, None, out, n, 0)

\* PostSerializer.create, the loop over uploaded_images: one
\* PostImage.objects.create per step, each its own statement.
PostList_create_image(p, f) ==
    LET r == inflight[p]
        okFk == ForeignKeyOk(r.post)
    IN /\ r.pc = "post_images"
       /\ IF okFk
          THEN /\ images' = images \cup {[id |-> nextImage, post |-> r.post, file |-> f]}
               /\ nextImage' = nextImage + 1
          ELSE UNCHANGED <<images, nextImage>>
       /\ UNCHANGED <<posts, likes, comments, nextPost, nextLike, nextComment>>
       /\ IF okFk /\ r.left > 1
          THEN /\ inflight' = [inflight EXCEPT ![p].left = r.left - 1]
               /\ UNCHANGED last
          ELSE /\ inflight' = [inflight EXCEPT ![p] = Idle]
               /\ last' = Response("api", "post", "create", r.subj, r.post, None,
                                   IF okFk THEN "ok" ELSE "IntegrityError",
                                   r.n, Cardinality({x \in images' : x.post = r.post}),
                                   TRUE)

\* PostDetail.update (PUT): permissions, get_object, is_valid,
\* AuthorCheckMixin.perform_update, ModelSerializer.update -> Post.save
PostDetail_update(subj, pid, text, loc, geo) ==
  \E bodyOwner \in OwnerIn :
    LET out == IF ~IsAuthenticatedOrReadOnly("PUT", subj) THEN "NotAuthenticated"
               ELSE IF ~PostExists(pid) THEN "NotFound"
               ELSE IF ~has_object_permission("PUT", subj, "post", PostById(pid))
                    THEN "PermissionDenied"
               ELSE IF text = Blank THEN "Invalid"
               ELSE IF ~AuthorCheck(subj, "post", PostById(pid)) THEN "NotYours"
               ELSE "ok"
        old == PostById(pid)
        new == Post_save([old EXCEPT !.text = text,
                                     !.author = owner_on_update(old.author, bodyOwner),
                                     !.loc = IF loc # None THEN loc ELSE old.loc], geo)
    IN /\ IF out = "ok"
          THEN posts' = (posts \ {old}) \cup {new}
          ELSE UNCHANGED posts
       /\ UNCHANGED <<images, likes, comments, ids, inflight>>
       /\ Reply("api", "post", "update", subj, pid,
                IF PostExists(pid) THEN OwnerOf("post", old) ELSE None, out, 0, 0)

\* PostDetail.destroy (DELETE): permissions, get_object,
\* AuthorCheckMixin.perform_destroy, instance.delete()
PostDetail_destroy(subj, pid) ==
    LET out == IF ~IsAuthenticatedOrReadOnly("DELETE", subj) THEN "NotAuthenticated"
               ELSE IF ~PostExists(pid) THEN "NotFound"
               ELSE IF ~has_object_permission("DELETE", subj, "post", PostById(pid))
                    THEN "PermissionDenied"
               ELSE IF ~AuthorCheck(subj, "post", PostById(pid)) THEN "NotYours"
               ELSE "ok"
    IN /\ IF out = "ok" THEN Post_delete(pid) ELSE UNCHANGED store
       /\ UNCHANGED <<ids, inflight>>
       /\ Reply("api", "post", "delete", subj, pid,
                IF PostExists(pid) THEN OwnerOf("post", PostById(pid)) ELSE None,
                out, 0, 0)

\* ------------------------------------------------------------------ images
\* PostImageList.create: is_valid (the image file is required), then
\* perform_create: serializer.save(post_id=post_id), one INSERT.
PostImageList_create(subj, pid, hasFile, f) ==
    LET out == IF ~IsAuthenticatedOrReadOnly("POST", subj) THEN "NotAuthenticated"
               ELSE IF ~hasFile THEN "Invalid"
               ELSE IF pid = 0 THEN "Invalid"
               ELSE IF ~ForeignKeyOk(pid) THEN "IntegrityError"
               ELSE "ok"
    IN /\ out = "ok" => nextImage <= MaxImages
       /\ IF out = "ok"
          THEN /\ images' = images \cup {[id |-> nextImage, post |-> pid, file |-> f]}
               /\ nextImage' = nextImage + 1
          ELSE UNCHANGED <<images, nextImage>>
       /\ UNCHANGED <<posts, likes, comments, nextPost, nextLike, nextComment, inflight>>
       /\ Reply("api", "image", "create", subj,
                IF out = "ok" THEN nextImage ELSE 0, None, out, 0, 0)

ImageExists(i) == \E x \in images : x.id = i

\* PostImageDetail.update (PUT)
PostImageDetail_update(subj, i, f) ==
    LET out == IF ~IsAuthenticatedOrReadOnly("PUT", subj) THEN "NotAuthenticated"
               ELSE IF ~ImageExists(i) THEN "NotFound"
               ELSE IF ~has_object_permission("PUT", subj, "image", ImageById(i))
                    THEN "PermissionDenied"
               ELSE IF ~AuthorCheck(subj, "image", ImageById(i)) THEN "NotYours"
               ELSE "ok"
    IN /\ IF out = "ok"
          THEN images' = (images \ {ImageById(i)}) \cup {[ImageById(i) EXCEPT !.file = f]}
          ELSE UNCHANGED images
       /\ UNCHANGED <<posts, likes, comments, ids, inflight>>
       /\ Reply("api", "image", "update", subj, i,
                IF ImageExists(i) THEN OwnerOf("image", ImageById(i)) ELSE None,
                out, 0, 0)

\* PostImageDetail.destroy (DELETE)
PostImageDetail_destroy(subj, i) ==
    LET out == IF ~IsAuthenticatedOrReadOnly("DELETE", subj) THEN "NotAuthenticated"
               ELSE IF ~ImageExists(i) THEN "NotFound"
               ELSE IF ~has_object_permission("DELETE", subj, "image", ImageById(i))
                    THEN "PermissionDenied"
               ELSE IF ~AuthorCheck(subj, "image", ImageById(i)) THEN "NotYours"
               ELSE "ok"
    IN /\ IF out = "ok"
          THEN images' = images \ {ImageById(i)}
          ELSE UNCHANGED images
       /\ UNCHANGED <<posts, likes, comments, ids, inflight>>
       /\ Reply("api", "image", "delete", subj, i,
                IF ImageExists(i) THEN OwnerOf("image", ImageById(i)) ELSE None,
                out, 0, 0)

\* ------------------------------------------------------------------- likes
LikeExists(i) == \E x \in likes : x.id = i

\* Like.objects.filter(post=post, user=request.user).exists()
already_liked(pid, u) == \E x \in likes : x.post = pid /\ x.user = u

\* The INSERT of a Like row: the foreign key and unique_together are checked
\* by the database when the row is written.
Like_insert_ok(pid, u) == ForeignKeyOk(pid) /\ UniqueTogetherOk(likes, pid, u)

\* LikeList.create up to the existence check of perform_create: permission,
\* is_valid (the body's post must name a post), get_object_or_404, exists().
LikeList_create(p, subj, pid, bodyPost) ==
    LET out == IF ~IsAuthenticated(subj) THEN "NotAuthenticated"
               ELSE IF ~PostExists(bodyPost) THEN "Invalid"
               ELSE IF ~PostExists(pid) THEN "NotFound"
               ELSE IF already_liked(pid, subj) THEN "AlreadyLiked"
               ELSE "ok"
    IN /\ inflight[p].pc = "idle"
       /\ out = "ok" => nextLike <= MaxLikes
       /\ UNCHANGED <<store, ids>>
       /\ IF out = "ok"
          THEN /\ inflight' = [inflight EXCEPT ![p] =
                     [Idle EXCEPT !.pc = "like_insert", !.subj = subj, !.post = pid]]
               /\ UNCHANGED last
          ELSE /\ UNCHANGED inflight
               /\ Reply("api", "like", "create", subj, pid, None, out, 0, 0)

\* LikeList.perform_create, serializer.save(user=request.user, post=post)
LikeList_create_insert(p) ==
  \E bodyOwner \in OwnerIn :
    LET r == inflight[p]
        user == owner_on_create(r.subj, bodyOwner)
        okIns == Like_insert_ok(r.post, user)
    IN /\ r.pc = "like_insert"
       /\ IF okIns
          THEN /\ likes' = likes \cup {[id |-> nextLike, post |-> r.post, user |-> user]}
               /\ nextLike' = nextLike + 1
          ELSE UNCHANGED <<likes, nextLike>>
       /\ UNCHANGED <<posts, images, comments, nextPost, nextImage, nextComment>>
       /\ inflight' = [inflight EXCEPT ![p] = Idle]
       /\ Reply("api", "like", "create", r.subj, r.post, None,
                IF okIns THEN "ok" ELSE "IntegrityError", 0, 0)

\* LikeDetail.perform_update / perform_destroy: the creator test
LikeDetail_is_creator_unchecked(subj, like) == TRUE

LikeDetail_is_creator(subj, like) == like.user = subj

\* LikeDetail.update (PUT): the body's post is writable, user is read-only
LikeDetail_update(subj, i, bodyPost) ==
  \E bodyOwner \in OwnerIn :
    LET out == IF ~IsAuthenticated(subj) THEN "NotAuthenticated"
               ELSE IF ~LikeExists(i) THEN "NotFound"
               ELSE IF ~PostExists(bodyPost) THEN "Invalid"
               ELSE IF ~LikeDetail_is_creator(subj, LikeById(i)) THEN "NotYours"
               ELSE IF ~UniqueTogetherOk(likes \ {LikeById(i)}, bodyPost, subj)
                    THEN "IntegrityError"
               ELSE "ok"
    IN /\ IF out = "ok"
          THEN likes' = (likes \ {LikeById(i)}) \cup
                   {[LikeById(i) EXCEPT !.post = bodyPost,
                         !.user = owner_on_update(LikeById(i).user, bodyOwner)]}
          ELSE UNCHANGED likes
       /\ UNCHANGED <<posts, images, comments, ids, inflight>>
       /\ Reply("api", "like", "update", subj, i,
                IF LikeExists(i) THEN OwnerOf("like", LikeById(i)) ELSE None, out, 0, 0)

\* LikeDetail.destroy (DELETE)
LikeDetail_destroy(subj, i) ==
    LET out == IF ~IsAuthenticated(subj) THEN "NotAuthenticated"
               ELSE IF ~LikeExists(i) THEN "NotFound"
               ELSE IF ~LikeDetail_is_creator(subj, LikeById(i)) THEN "NotYours"
               ELSE "ok"
    IN /\ IF out = "ok"
          THEN likes' = likes \ {LikeById(i)}
          ELSE UNCHANGED likes
       /\ UNCHANGED <<posts, images, comments, ids, inflight>>
       /\ Reply("api", "like", "delete", subj, i,
                IF LikeExists(i) THEN OwnerOf("like", LikeById(i)) ELSE None, out, 0, 0)

\* ---------------------------------------------------------------- comments
CommentExists(i) == \E x \in comments : x.id = i

\* CommentList.create up to get_object_or_404 of perform_create
CommentList_create(p, subj, pid, bodyPost, text) ==
    LET out == IF ~IsAuthenticatedOrReadOnly("POST", subj) THEN "NotAuthenticated"
               ELSE IF ~PostExists(bodyPost) \/ text = Blank THEN "Invalid"
               ELSE IF ~PostExists(pid) THEN "NotFound"
               ELSE "ok"
    IN /\ inflight[p].pc = "idle"
       /\ out = "ok" => nextComment <= MaxComments
       /\ UNCHANGED <<store, ids>>
       /\ IF out = "ok"
          THEN /\ inflight' = [inflight EXCEPT ![p] =
                     [Idle EXCEPT !.pc = "comment_insert", !.subj = subj,
                                  !.post = pid, !.text = text]]
               /\ UNCHANGED last
          ELSE /\ UNCHANGED inflight
               /\ Reply("api", "comment", "create", subj, pid, None, out, 0, 0)

\* CommentList.perform_create, serializer.save(author=request.user, post=post)
CommentList_create_insert(p) ==
  \E bodyOwner \in OwnerIn :
    LET r == inflight[p]
        okFk == ForeignKeyOk(r.post)
    IN /\ r.pc = "comment_insert"
       /\ IF okFk
          THEN /\ comments' = comments \cup {[id |-> nextComment, post |-> r.post,
                                             author |-> owner_on_create(r.subj, bodyOwner),
                                             text |-> r.text]}
               /\ nextComment' = nextComment + 1
          ELSE UNCHANGED <<comments, nextComment>>
       /\ UNCHANGED <<posts, images, likes, nextPost, nextImage, nextLike>>
       /\ inflight' = [inflight EXCEPT ![p] = Idle]
       /\ Reply("api", "comment", "create", r.subj, r.post, None,
                IF okFk THEN "ok" ELSE "IntegrityError", 0, 0)

\* CommentDetail.update (PUT): post and text are writable, author is read-only
CommentDetail_update(subj, i, bodyPost, text) ==
  \E bodyOwner \in OwnerIn :
    LET out == IF ~IsAuthenticatedOrReadOnly("PUT", subj) THEN "NotAuthenticated"
               ELSE IF ~CommentExists(i) THEN "NotFound"
               ELSE IF ~has_object_permission("PUT", subj, "comment", CommentById(i))
                    THEN "PermissionDenied"
               ELSE IF ~PostExists(bodyPost) \/ text = Blank THEN "Invalid"
               ELSE IF ~AuthorCheck(subj, "comment", CommentById(i)) THEN "NotYours"
               ELSE "ok"
    IN /\ IF out = "ok"
          THEN comments' = (comments \ {CommentById(i)}) \cup
                   {[CommentById(i) EXCEPT !.post = bodyPost, !.text = text,
                         !.author = owner_on_update(CommentById(i).author, bodyOwner)]}
          ELSE UNCHANGED comments
       /\ UNCHANGED <<posts, images, likes, ids, inflight>>
       /\ Reply("api", "comment", "update", subj, i,
                IF CommentExists(i) THEN OwnerOf("comment", CommentById(i)) ELSE None,
                out, 0, 0)

\* CommentDetail.destroy (DELETE)
CommentDetail_destroy(subj, i) ==
    LET out == IF ~IsAuthenticatedOrReadOnly("DELETE", subj) THEN "NotAuthenticated"
               ELSE IF ~CommentExists(i) THEN "NotFound"
               ELSE IF ~has_object_permission("DELETE", subj, "comment", CommentById(i))
                    THEN "PermissionDenied"
               ELSE IF ~AuthorCheck(subj, "comment", CommentById(i)) THEN "NotYours"
               ELSE "ok"
    IN /\ IF out = "ok"
          THEN comments' = comments \ {CommentById(i)}
          ELSE UNCHANGED comments
       /\ UNCHANGED <<posts, images, likes, ids, inflight>>
       /\ Reply("api", "comment", "delete", subj, i,
                IF CommentExists(i) THEN OwnerOf("comment", CommentById(i)) ELSE None,
                out, 0, 0)

\* ------------------------------------------------------------------- admin
\* PostAdmin.delete_model, reached through the admin's delete view, which
\* runs it inside one transaction: the four deletes commit together.
PostAdmin_delete_model(subj, pid) ==
    LET visible == \E x \in Admin_get_queryset(subj) : x.id = pid
        out == IF ~visible THEN "NotFound"
               ELSE IF ~has_delete_permission(subj, PostById(pid)) THEN "PermissionDenied"
               ELSE "ok"
    IN /\ subj \in Staff
       /\ IF out = "ok" THEN Post_delete(pid) ELSE UNCHANGED store
       /\ UNCHANGED <<ids, inflight>>
       /\ Reply("admin", "post", "delete", subj, pid,
                IF PostExists(pid) THEN OwnerOf("post", PostById(pid)) ELSE None,
                out, 0, 0)

\* The admin change form of a post: has_change_permission, then Post.save
PostAdmin_change(subj, pid, text, geo) ==
    LET visible == \E x \in Admin_get_queryset(subj) : x.id = pid
        out == IF ~visible THEN "NotFound"
               ELSE IF ~has_change_permission(subj, PostById(pid)) THEN "PermissionDenied"
               ELSE IF text = Blank THEN "Invalid"
               ELSE "ok"
        old == PostById(pid)
    IN /\ subj \in Staff
       /\ IF out = "ok"
          THEN posts' = (posts \ {old}) \cup {Post_save([old EXCEPT !.text = text], geo)}
          ELSE UNCHANGED posts
       /\ UNCHANGED <<images, likes, comments, ids, inflight>>
       /\ Reply("admin", "post", "update", subj, pid,
                IF PostExists(pid) THEN OwnerOf("post", old) ELSE None, out, 0, 0)

\* PostAdmin.delete_selected_posts: the action receives the selected rows of
\* get_queryset and deletes, post by post, images, likes, comments and the
\* post, each delete a statement of its own (the changelist view opens no
\* transaction). removed counts the child rows deleted so far for the post
\* at hand.
Max(S) == CHOOSE x \in S : \A y \in S : y <= x

PostAdmin_delete_selected_posts(p, subj, sel) ==
    /\ inflight[p].pc = "idle"
    /\ subj \in Staff
    /\ sel # {}
    /\ sel \subseteq {x.id : x \in Admin_get_queryset(subj)}
    /\ inflight' = [inflight EXCEPT ![p] =
          [Idle EXCEPT !.pc = "adm_images", !.subj = subj, !.post = Max(sel),
                       !.todo = sel \ {Max(sel)}, !.n = Cardinality(sel)]]
    /\ UNCHANGED <<store, ids, last>>

\* post.images.all().delete()
delete_selected_images_of(p) ==
    LET r == inflight[p]
    IN /\ r.pc = "adm_images"
       /\ images' = images \ ImagesOf(r.post)
       /\ inflight' = [inflight EXCEPT ![p].pc = "adm_likes",
                          ![p].removed = r.removed + Cardinality(ImagesOf(r.post))]
       /\ UNCHANGED <<posts, likes, comments, ids, last>>

\* post.likes.all().delete()
delete_selected_likes_of(p) ==
    LET r == inflight[p]
    IN /\ r.pc = "adm_likes"
       /\ likes' = likes \ LikesOf(r.post)
       /\ inflight' = [inflight EXCEPT ![p].pc = "adm_comments",
                          ![p].removed = r.removed + Cardinality(LikesOf(r.post))]
       /\ UNCHANGED <<posts, images, comments, ids, last>>

\* post.comments.all().delete()
delete_selected_comments_of(p) ==
    LET r == inflight[p]
    IN /\ r.pc = "adm_comments"
       /\ comments' = comments \ CommentsOf(r.post)
       /\ inflight' = [inflight EXCEPT ![p].pc = "adm_post",
                          ![p].removed = r.removed + Cardinality(CommentsOf(r.post))]
       /\ UNCHANGED <<posts, images, likes, ids, last>>

\* post.delete(), then the next post of the queryset or the message
delete_selected_post(p) ==
    LET r == inflight[p]
    IN /\ r.pc = "adm_post"
       /\ Post_delete(r.post)
       /\ UNCHANGED ids
       /\ IF r.todo # {}
          THEN /\ inflight' = [inflight EXCEPT ![p].pc = "adm_images",
                                               ![p].post = Max(r.todo),
                                               ![p].todo = r.todo \ {Max(r.todo)},
                                               ![p].removed = 0]
               /\ UNCHANGED last
          ELSE /\ inflight' = [inflight EXCEPT ![p] = Idle]
               /\ last' = Response("admin", "post", "delete_selected", r.subj, r.post,
                                   None, "ok", r.n, 0, TRUE)

\* ------------------------------------------------------ the specifications
TextIn == Texts \cup {Blank}
LocIn == LocNames \cup {None}
PostIn == 0..MaxPosts
ImageIds == 1..MaxImages
LikeIds == 1..MaxLikes
CommentIds == 1..MaxComments

\* Every request of the API and of the admin, any subject, any input.
Next ==
    \/ \E p \in Procs, subj \in Subjects, text \in TextIn, nUp \in 0..MaxUploads,
          img \in BOOLEAN, nFiles \in 0..MaxUploads, loc \in LocIn, geo \in GeoOutcomes :
          PostList_create(p, subj, text, nUp, img, nFiles, loc, geo)
    \/ \E p \in Procs, f \in Files : PostList_create_image(p, f)
    \/ \E subj \in Subjects, pid \in PostIds, text \in TextIn, loc \in LocIn,
          geo \in GeoOutcomes : PostDetail_update(subj, pid, text, loc, geo)
    \/ \E subj \in Subjects, pid \in PostIds : PostDetail_destroy(subj, pid)
    \/ \E subj \in Subjects, pid \in PostIn, hasFile \in BOOLEAN, f \in Files :
          PostImageList_create(subj, pid, hasFile, f)
    \/ \E subj \in Subjects, i \in ImageIds, f \in Files :
          PostImageDetail_update(subj, i, f)
    \/ \E subj \in Subjects, i \in ImageIds : PostImageDetail_destroy(subj, i)
    \/ \E p \in Procs, subj \in Subjects, pid \in PostIds, bodyPost \in PostIn :
          LikeList_create(p, subj, pid, bodyPost)
    \/ \E p \in Procs : LikeList_create_insert(p)
    \/ \E subj \in Subjects, i \in LikeIds, bodyPost \in PostIn :
          LikeDetail_update(subj, i, bodyPost)
    \/ \E subj \in Subjects, i \in LikeIds : LikeDetail_destroy(subj, i)
    \/ \E p \in Procs, subj \in Subjects, pid \in PostIds, bodyPost \in PostIn,
          text \in TextIn : CommentList_create(p, subj, pid, bodyPost, text)
    \/ \E p \in Procs : CommentList_create_insert(p)
    \/ \E subj \in Subjects, i \in CommentIds, bodyPost \in PostIn, text \in TextIn :
          CommentDetail_update(subj, i, bodyPost, text)
    \/ \E subj \in Subjects, i \in CommentIds : CommentDetail_destroy(subj, i)
    \/ \E subj \in Staff, pid \in PostIds : PostAdmin_delete_model(subj, pid)
    \/ \E subj \in Staff, pid \in PostIds, text \in TextIn, geo \in GeoOutcomes :
          PostAdmin_change(subj, pid, text, geo)
    \/ \E p \in Procs, subj \in Staff, sel \in SUBSET PostIds :
          PostAdmin_delete_selected_posts(p, subj, sel)
    \/ \E p \in Procs : delete_selected_images_of(p)
    \/ \E p \in Procs : delete_selected_likes_of(p)
    \/ \E p \in Procs : delete_selected_comments_of(p)
    \/ \E p \in Procs : delete_selected_post(p)

Spec == Init /\ [][Next]_vars

\* Authorization of requests on existing resources: one request at a time,
\* posts created with one uploaded image, every subject issuing every
\* update and delete of the API and of the post admin.
NextAuth ==
    \/ \E subj \in Subjects :
          PostList_create(1, subj, "t1", 1, FALSE, 0, None, "found")
    \/ PostList_create_image(1, "f1")
    \/ \E subj \in Subjects, pid \in PostIds :
          PostDetail_update(subj, pid, "t2", None, "found")
    \/ \E subj \in Subjects, pid \in PostIds : PostDetail_destroy(subj, pid)
    \/ \E subj \in Subjects, pid \in PostIds :
          PostImageList_create(subj, pid, TRUE, "f1")
    \/ \E subj \in Subjects, i \in ImageIds : PostImageDetail_update(subj, i, "f2")
    \/ \E subj \in Subjects, i \in ImageIds : PostImageDetail_destroy(subj, i)
    \/ \E subj \in Subjects, pid \in PostIds : LikeList_create(1, subj, pid, pid)
    \/ LikeList_create_insert(1)
    \/ \E subj \in Subjects, i \in LikeIds, bodyPost \in PostIds :
          LikeDetail_update(subj, i, bodyPost)
    \/ \E subj \in Subjects, i \in LikeIds : LikeDetail_destroy(subj, i)
    \/ \E subj \in Subjects, pid \in PostIds :
          CommentList_create(1, subj, pid, pid, "t1")
    \/ CommentList_create_insert(1)
    \/ \E subj \in Subjects, i \in CommentIds, bodyPost \in PostIds :
          CommentDetail_update(subj, i, bodyPost, "t2")
    \/ \E subj \in Subjects, i \in CommentIds : CommentDetail_destroy(subj, i)
    \/ \E subj \in Staff, pid \in PostIds : PostAdmin_delete_model(subj, pid)
    \/ \E subj \in Staff, pid \in PostIds : PostAdmin_change(subj, pid, "t2", "found")

SpecAuth == Init /\ [][NextAuth]_vars

\* Likes under concurrency: two requests in flight, each between the
\* existence check and the insert, with like updates and deletes and the
\* deletion of the post.
NextLike ==
    \/ PostList_create(1, "alice", "t1", 1, FALSE, 0, None, "found")
    \/ PostList_create_image(1, "f1")
    \/ \E p \in Procs, subj \in Subjects, pid \in PostIds, bodyPost \in PostIn :
          LikeList_create(p, subj, pid, bodyPost)
    \/ \E p \in Procs : LikeList_create_insert(p)
    \/ \E subj \in Users, i \in LikeIds, bodyPost \in PostIds :
          LikeDetail_update(subj, i, bodyPost)
    \/ \E subj \in Users, i \in LikeIds : LikeDetail_destroy(subj, i)
    \/ \E pid \in PostIds : PostDetail_destroy("alice", pid)

SpecLike == Init /\ [][NextLike]_vars

\* Deletion of a post against the creation of its children: the API delete,
\* the admin delete view and the admin action, interleaved with image, like
\* and comment creation.
NextCascade ==
    \/ PostList_create(1, "alice", "t1", 1, FALSE, 0, None, "found")
    \/ PostList_create_image(1, "f1")
    \/ \E subj \in Users, pid \in PostIds : PostImageList_create(subj, pid, TRUE, "f1")
    \/ \E subj \in Users, pid \in PostIds : LikeList_create(1, subj, pid, pid)
    \/ LikeList_create_insert(1)
    \/ \E subj \in Users, pid \in PostIds : CommentList_create(1, subj, pid, pid, "t1")
    \/ CommentList_create_insert(1)
    \/ \E subj \in Staff, pid \in PostIds : PostDetail_destroy(subj, pid)
    \/ \E subj \in Staff, pid \in PostIds : PostAdmin_delete_model(subj, pid)
    \/ \E subj \in Staff, sel \in SUBSET PostIds :
          PostAdmin_delete_selected_posts(2, subj, sel)
    \/ delete_selected_images_of(2)
    \/ delete_selected_likes_of(2)
    \/ delete_selected_comments_of(2)
    \/ delete_selected_post(2)

SpecCascade == Init /\ [][NextCascade]_vars

\* Post creation with every combination of the three ways a request can
\* carry images, every text, location and geocoder outcome.
NextPost ==
    \/ \E subj \in Subjects, text \in TextIn, nUp \in 0..MaxUploads,
          img \in BOOLEAN, nFiles \in 0..MaxUploads, loc \in LocIn :
          \E geo \in (IF loc = None THEN {"found"} ELSE GeoOutcomes) :
             PostList_create(1, subj, text, nUp, img, nFiles, loc, geo)
    \/ \E f \in Files : PostList_create_image(1, f)
    \/ \E subj \in Users, pid \in PostIds : PostDetail_destroy(subj, pid)

SpecPost == Init /\ [][NextPost]_vars

\* urls.py: api/posts/<int:post_id>/images|likes|comments/<int:pk>/ reach the
\* detail views, whose queryset is Model.objects.all() and whose lookup is
\* by pk alone: the post_id of the URL is not read.
UrlPosts == 0..(MaxPosts + 1)

PostImageDetail_update_at(urlPost, subj, i, f) == PostImageDetail_update(subj, i, f)
PostImageDetail_destroy_at(urlPost, subj, i) == PostImageDetail_destroy(subj, i)
LikeDetail_update_at(urlPost, subj, i, bodyPost) == LikeDetail_update(subj, i, bodyPost)
LikeDetail_destroy_at(urlPost, subj, i) == LikeDetail_destroy(subj, i)
CommentDetail_update_at(urlPost, subj, i, bodyPost, text) ==
    CommentDetail_update(subj, i, bodyPost, text)
CommentDetail_destroy_at(urlPost, subj, i) == CommentDetail_destroy(subj, i)

\* The API alone, as routed by urls.py: authenticated subjects, one request
\* at a time, every detail request under every post id of the URL.
NextApi ==
    \/ \E subj \in Users : PostList_create(1, subj, "t1", 1, FALSE, 0, None, "found")
    \/ PostList_create_image(1, "f1")
    \/ \E subj \in Users, pid \in PostIds :
          PostDetail_update(subj, pid, "t2", None, "found")
    \/ \E subj \in Users, pid \in PostIds : PostDetail_destroy(subj, pid)
    \/ \E subj \in Users, pid \in PostIds : PostImageList_create(subj, pid, TRUE, "f1")
    \/ \E urlPost \in UrlPosts, subj \in Users, i \in ImageIds :
          PostImageDetail_update_at(urlPost, subj, i, "f2")
    \/ \E urlPost \in UrlPosts, subj \in Users, i \in ImageIds :
          PostImageDetail_destroy_at(urlPost, subj, i)
    \/ \E subj \in Users, pid \in PostIds : LikeList_create(1, subj, pid, pid)
    \/ LikeList_create_insert(1)
    \/ \E urlPost \in UrlPosts, subj \in Users, i \in LikeIds, bodyPost \in PostIds :
          LikeDetail_update_at(urlPost, subj, i, bodyPost)
    \/ \E urlPost \in UrlPosts, subj \in Users, i \in LikeIds :
          LikeDetail_destroy_at(urlPost, subj, i)
    \/ \E subj \in Users, pid \in PostIds : CommentList_create(1, subj, pid, pid, "t1")
    \/ CommentList_create_insert(1)
    \/ \E urlPost \in UrlPosts, subj \in Users, i \in CommentIds, bodyPost \in PostIds :
          CommentDetail_update_at(urlPost, subj, i, bodyPost, "t2")
    \/ \E urlPost \in UrlPosts, subj \in Users, i \in CommentIds :
          CommentDetail_destroy_at(urlPost, subj, i)

SpecApi == Init /\ [][NextApi]_vars

\* Ownership through the API: posts, likes and comments created, updated
\* and deleted by every authenticated subject, one request at a time.
NextOwner ==
    \/ \E subj \in Users : PostList_create(1, subj, "t1", 1, FALSE, 0, None, "found")
    \/ PostList_create_image(1, "f1")
    \/ \E subj \in Users, pid \in PostIds :
          PostDetail_update(subj, pid, "t2", None, "found")
    \/ \E subj \in Users, pid \in PostIds : PostDetail_destroy(subj, pid)
    \/ \E subj \in Users, pid \in PostIds : LikeList_create(1, subj, pid, pid)
    \/ LikeList_create_insert(1)
    \/ \E subj \in Users, i \in LikeIds, bodyPost \in PostIds :
          LikeDetail_update(subj, i, bodyPost)
    \/ \E subj \in Users, i \in LikeIds : LikeDetail_destroy(subj, i)
    \/ \E subj \in Users, pid \in PostIds : CommentList_create(1, subj, pid, pid, "t1")
    \/ CommentList_create_insert(1)
    \/ \E subj \in Users, i \in CommentIds, bodyPost \in PostIds :
          CommentDetail_update(subj, i, bodyPost, "t2")
    \/ \E subj \in Users, i \in CommentIds : CommentDetail_destroy(subj, i)

SpecOwner == Init /\ [][NextOwner]_vars

\* -------------------------------------------------------------- properties
Mutating == {"update", "delete"}
\* 403 of the permission class, 400 of the view's own author test, and 400
\* of a body that fails validation before the author test is reached
Refused == {"PermissionDenied", "NotYours", "Invalid"}
NotOwnerDenials == {"PermissionDenied", "NotYours"}

RowExists(kind, id) ==
    CASE kind = "post" -> PostExists(id)
      [] kind = "image" -> ImageExists(id)
      [] kind = "like" -> LikeExists(id)
      [] kind = "comment" -> CommentExists(id)
      [] OTHER -> FALSE

\* C1: an update or delete through the API by an authenticated subject that
\* is not a superuser, on a post, image, like or comment whose owner is
\* another subject, is refused and leaves the store unchanged.
C1_NonOwnerMutationDenied ==
    (/\ last.via = "api"
     /\ last.op \in Mutating
     /\ last.subj \in Users \ Superusers
     /\ last.owner \notin {None, last.subj})
    => (last.out \in Refused /\ ~last.changed)

C1_Witness ==
    /\ last.via = "api" /\ last.kind = "like" /\ last.op = "delete"
    /\ last.subj = "bob" /\ last.owner = "alice"
    /\ last.out = "NotYours" /\ LikeExists(last.id)

\* C10: a create, update or delete through the API by the anonymous subject
\* ends with the authentication-required outcome (NotAuthenticated, never
\* PermissionDenied or the view's author test) and writes nothing; no
\* anonymous request ever gets as far as its write step.
C10_AnonymousNeverWrites ==
    /\ (last.via = "api" /\ last.subj = AnonymousUser)
          => (last.out = "NotAuthenticated" /\ ~last.changed)
    /\ \A p \in Procs : inflight[p].pc # "idle" => inflight[p].subj # AnonymousUser

C10_Witness ==
    /\ last.via = "api" /\ last.subj = AnonymousUser
    /\ last.kind = "comment" /\ last.op = "delete"
    /\ last.out = "NotAuthenticated" /\ CommentExists(last.id)

\* C8 as stated: a superuser is allowed every update and delete on any
\* existing post, image, like and comment, whoever owns it.
C8_SuperuserAllowedEverywhere ==
    (/\ last.op \in Mutating
     /\ last.subj \in Superusers
     /\ last.owner # None)
    => last.out \notin NotOwnerDenials

\* C8 as amended: in the post admin a superuser is allowed update and delete
\* of any post, also of a post of another author; through the API a superuser
\* who is not the owner of a post, image, like or comment is refused like any
\* other subject and the store is unchanged.
C8_SuperuserOverrideInAdminOnly ==
    /\ (/\ last.via = "admin" /\ last.kind = "post" /\ last.op \in Mutating
        /\ last.subj \in Superusers /\ last.owner # None)
       => (/\ last.out \in {"ok", "Invalid"}
           /\ (last.op = "delete" => ~PostExists(last.id)))
    /\ (/\ last.via = "api" /\ last.op \in Mutating
        /\ last.subj \in Superusers /\ last.owner \notin {None, last.subj})
       => (last.out \in Refused /\ ~last.changed)

C8_Witness ==
    /\ last.via = "admin" /\ last.kind = "post" /\ last.op = "delete"
    /\ last.subj = "root" /\ last.owner = "alice"
    /\ last.out = "ok" /\ last.changed

\* C9: a delete through the API by the owner of an existing post, image,
\* like or comment (for an image, the author of its post) is allowed and
\* removes the row.
C9_OwnerDeleteAllowed ==
    (/\ last.via = "api" /\ last.op = "delete"
     /\ last.subj \in Users /\ last.owner = last.subj)
    => (/\ last.out = "ok"
        /\ last.changed
        /\ ~RowExists(last.kind, last.id))

\* C2: at most one like row exists per (post, user) pair in every state,
\* whatever the interleaving of the like requests.
C2_OneLikePerPair ==
    \A x \in likes, y \in likes :
        (x.post = y.post /\ x.user = y.user) => x.id = y.id

\* Two requests for one pair both passed the existence check; the insert of
\* the second was refused by the database while the first one's row stands.
C2_Witness ==
    /\ last.kind = "like" /\ last.op = "create" /\ last.out = "IntegrityError"
    /\ already_liked(last.id, last.subj)

\* C3: a like creation that persists nothing because the pair already has a
\* like ends with the already-liked conflict and leaves the store unchanged.
C3_DuplicateLikeIsConflict ==
    (/\ last.kind = "like" /\ last.op = "create"
     /\ last.out \in {"AlreadyLiked", "IntegrityError"}
     /\ already_liked(last.id, last.subj))
    => (last.out = "AlreadyLiked" /\ ~last.changed)

\* C4: every image, like and comment references a post that exists.
C4_NoOrphans ==
    /\ \A x \in images : PostExists(x.post)
    /\ \A x \in likes : PostExists(x.post)
    /\ \A x \in comments : PostExists(x.post)

\* A comment request looked its post up, the post was deleted, and the
\* insert was refused: no comment row, no post.
C4_Witness ==
    /\ last.kind = "comment" /\ last.op = "create" /\ last.out = "IntegrityError"
    /\ ~PostExists(last.id) /\ nextPost > last.id

\* C5: no state shows a post that still exists with some of its images,
\* likes and comments removed by a deletion of the post and others still
\* there.
C5_NoPartialCascade ==
    \A p \in Procs :
        LET r == inflight[p]
        IN (/\ r.pc \in {"adm_images", "adm_likes", "adm_comments", "adm_post"}
            /\ PostExists(r.post)
            /\ r.removed > 0)
           => (ImagesOf(r.post) \cup LikesOf(r.post) \cup CommentsOf(r.post)) = {}

\* C6: a post creation that supplies no image creates no row, and for an
\* authenticated subject it ends with a validation error.
C6_NoImageNoPost ==
    (last.kind = "post" /\ last.op = "create" /\ last.n = 0)
    => (/\ last.out # "ok"
        /\ ~last.changed
        /\ (last.subj \in Users => last.out \in {"NoImage", "Invalid"}))

C6_Witness ==
    /\ last.kind = "post" /\ last.op = "create" /\ last.n = 0
    /\ last.subj \in Users /\ last.out = "NoImage"
    /\ posts = {} /\ images = {}

\* C7: a post creation by an authenticated subject with a valid text and
\* n >= 1 images supplied succeeds and the post has n image rows.
C7_ImageCountEqualsSupplied ==
    (/\ last.kind = "post" /\ last.op = "create"
     /\ last.subj \in Users /\ last.n >= 1 /\ last.out # "Invalid")
    => (last.out = "ok" /\ last.cnt = last.n)

\* C11: an image, like or comment creation by an authenticated subject that
\* is addressed to a post id for which no post exists ends with NotFound and
\* creates no row.
C11_ChildOfMissingPostNotFound ==
    [][\A subj \in Users, pid \in PostIds :
          ~PostExists(pid) =>
             /\ \A f \in Files :
                   PostImageList_create(subj, pid, TRUE, f)
                      => (last'.out = "NotFound" /\ ~last'.changed)
             /\ \A p \in Procs, bodyPost \in PostIn :
                   LikeList_create(p, subj, pid, bodyPost)
                      => (last'.out = "NotFound" /\ ~last'.changed)
             /\ \A p \in Procs, bodyPost \in PostIn, text \in Texts :
                   CommentList_create(p, subj, pid, bodyPost, text)
                      => (last'.out = "NotFound" /\ ~last'.changed)]_vars

\* C12: no state shows a post of a creation request still under way with
\* fewer image rows than the request supplied.
C12_PostAndImagesTogether ==
    \A p \in Procs :
        LET r == inflight[p]
        IN (r.pc = "post_images" /\ PostExists(r.post))
           => Cardinality(ImagesOf(r.post)) >= r.n

\* C13: a post creation or update by an authenticated subject with a valid
\* text, an uploaded image and a location name goes through with the
\* coordinates unset, whichever way the geocoder fails (unavailable, timeout,
\* service error).
GeoFailures == {"unavailable", "timeout", "service_error"}

C13_GeocoderFailureNotSurfaced ==
    [][\A subj \in Users, text \in Texts, loc \in LocNames, geo \in GeoFailures :
          /\ \A p \in Procs, nUp \in 1..MaxUploads :
                PostList_create(p, subj, text, nUp, FALSE, 0, loc, geo)
                   => \E x \in posts' \ posts : x.author = subj /\ ~x.coords
          /\ \A pid \in PostIds :
                (/\ PostExists(pid)
                 /\ PostById(pid).author = subj
                 /\ ~PostById(pid).coords
                 /\ PostDetail_update(subj, pid, text, loc, geo))
                   => \E x \in posts' : x.id = pid /\ x.text = text /\ ~x.coords]_vars

\* C14: the like count reported for a post is the number of like rows that
\* reference it, one per subject whose like was accepted and not deleted
\* since; a rejected duplicate like leaves the count as it was, at least 1.
C14_LikeCountIsStoredLikes ==
    /\ \A x \in posts :
          /\ likes_count(x.id) = Cardinality({u \in Users : already_liked(x.id, u)})
          /\ likes_count(x.id) = Cardinality({y \in likes : y.post = x.id})
    /\ (/\ last.kind = "like" /\ last.op = "create"
        /\ last.out \in {"AlreadyLiked", "IntegrityError"}
        /\ PostExists(last.id))
       => (~last.changed /\ likes_count(last.id) >= 1)

\* bob's second like of a post was rejected and the count is still 1
C14_Witness ==
    /\ last.kind = "like" /\ last.op = "create" /\ last.out = "AlreadyLiked"
    /\ last.subj = "bob" /\ PostExists(last.id)
    /\ likes_count(last.id) = 1

\* C15: an update or delete of an image, like or comment addressed under a
\* post id other than the post the row references ends with NotFound and
\* leaves the row as it is.
C15_DetailScopedToPost ==
    [][\A urlPost \in UrlPosts, subj \in Users :
          /\ \A i \in CommentIds :
                (CommentExists(i) /\ CommentById(i).post # urlPost)
                => /\ CommentDetail_destroy_at(urlPost, subj, i)
                         => (last'.out = "NotFound" /\ comments' = comments)
                   /\ \A bodyPost \in PostIn, text \in Texts :
                         CommentDetail_update_at(urlPost, subj, i, bodyPost, text)
                            => (last'.out = "NotFound" /\ comments' = comments)
          /\ \A i \in LikeIds :
                (LikeExists(i) /\ LikeById(i).post # urlPost)
                => /\ LikeDetail_destroy_at(urlPost, subj, i)
                         => (last'.out = "NotFound" /\ likes' = likes)
                   /\ \A bodyPost \in PostIn :
                         LikeDetail_update_at(urlPost, subj, i, bodyPost)
                            => (last'.out = "NotFound" /\ likes' = likes)
          /\ \A i \in ImageIds :
                (ImageExists(i) /\ ImageById(i).post # urlPost)
                => /\ PostImageDetail_destroy_at(urlPost, subj, i)
                         => (last'.out = "NotFound" /\ images' = images)
                   /\ \A f \in Files :
                         PostImageDetail_update_at(urlPost, subj, i, f)
                            => (last'.out = "NotFound" /\ images' = images)]_vars

\* C16: an image creation through the API by an authenticated subject that is
\* neither the author of the target post nor a superuser is refused and adds
\* no image row.
C16_OnlyAuthorAttachesImage ==
    [][\A subj \in Users \ Superusers, pid \in PostIds, f \in Files :
          (/\ PostExists(pid)
           /\ PostById(pid).author # subj
           /\ PostImageList_create(subj, pid, TRUE, f))
          => (last'.out \in NotOwnerDenials /\ images' = images)]_vars

\* C17: through the API, a post, like or comment that appears in the store
\* has as owner the subject of the request that created it, and no step
\* changes the owner of a row that stays.
C17_OwnerIsCreator ==
    [][/\ \A x \in posts, y \in posts' : x.id = y.id => y.author = x.author
       /\ \A x \in likes, y \in likes' : x.id = y.id => y.user = x.user
       /\ \A x \in comments, y \in comments' : x.id = y.id => y.author = x.author
       /\ \A y \in posts' :
             ~PostExists(y.id) =>
                \E p \in Procs, subj \in Users, text \in Texts, nUp \in 0..MaxUploads,
                   nFiles \in 0..MaxUploads, loc \in LocIn, geo \in GeoOutcomes :
                   /\ PostList_create(p, subj, text, nUp, FALSE, nFiles, loc, geo)
                   /\ y.author = subj
       /\ \A y \in likes' :
             ~LikeExists(y.id) =>
                \E p \in Procs : LikeList_create_insert(p) /\ y.user = inflight[p].subj
       /\ \A y \in comments' :
             ~CommentExists(y.id) =>
                \E p \in Procs : CommentList_create_insert(p) /\ y.author = inflight[p].subj
       /\ \A p \in Procs :
             (inflight[p].pc = "idle" /\ inflight'[p].pc \in {"like_insert", "comment_insert"})
             => \E subj \in Users, pid \in PostIds, bodyPost \in PostIn :
                   /\ inflight'[p].subj = subj
                   /\ \/ LikeList_create(p, subj, pid, bodyPost)
                      \/ \E text \in Texts : CommentList_create(p, subj, pid, bodyPost, text)]_vars

\* bob's comment on alice's post stands after bob has updated it
C17_Witness ==
    /\ last.via = "api" /\ last.kind = "comment" /\ last.op = "update"
    /\ last.out = "ok" /\ last.subj = "bob"
    /\ \E x \in comments : x.id = last.id /\ x.author = "bob" /\ x.text = "t2"
    /\ \E x \in posts : x.author = "alice"

\* C18: a post created with a location name has that name stored, whether
\* the geocoder finds coordinates, finds no match or fails.
C18_LocationNameStored ==
    [][\A p \in Procs, subj \in Users, text \in Texts, nUp \in 1..MaxUploads,
          loc \in LocNames, geo \in GeoOutcomes :
          (PostList_create(p, subj, text, nUp, FALSE, 0, loc, geo) /\ posts' # posts)
          => \E x \in posts' \ posts : x.loc = loc]_vars

====
